---------------------------- MODULE Spec2Model ----------------------------
(***************************************************************************)
(* A model of the forecasting pipeline of the stock-prediction service:    *)
(* DataService (app/services/data_service.py), FeatureEngineer             *)
(* (app/utils/feature_engineering.py), ModelService                        *)
(* (app/services/model_service.py) and the request handlers of             *)
(* app/api/routes.py that drive them.                                      *)
(*                                                                         *)
(* Optional values (Python's None) are sequences of length at most one:    *)
(* <<>> is None and <<x>> is x.  Positions are 1-based here and 0-based in *)
(* the source: source position k is position k + 1 of a sequence.          *)
(***************************************************************************)
EXTENDS Integers, Sequences, FiniteSets, TLC

VARIABLES
    current_data,        \* DataService.current_data
    fe_data,             \* FeatureEngineer.data
    generated_features,  \* FeatureEngineer.generated_features
    model,               \* ModelService.model
    model_info,          \* ModelService.model_info
    training_data,       \* ModelService.training_data
    testing_data,        \* ModelService.testing_data
    predictions,         \* ModelService.predictions
    actual_values,       \* ModelService.actual_values
    model_file,          \* the file save_model writes and load_model reads
    req,                 \* the arguments of the call under study
    call,                \* the last call made: its arguments and its outcome
    ncalls               \* how many calls have been made

vars == <<current_data, fe_data, generated_features, model, model_info,
          training_data, testing_data, predictions, actual_values,
          model_file, req, call, ncalls>>

dataVars == <<current_data, fe_data, generated_features>>

modelVars == <<model, model_info, training_data, testing_data>>

forecastVars == <<predictions, actual_values>>

(***************************************************************************)
(* Bounds of the model.                                                    *)
(***************************************************************************)
MaxRows == 4        \* rows of a table handed to split_data
MaxFeatRows == 4    \* rows of a table handed to generate_rolling_features
MaxWindow == 3      \* largest rolling window
MaxCalls == 2       \* repeated generate_features calls on one session
MaxMetricLen == 3   \* values of a series handed to calculate_metrics
MaxSteps == 5       \* requests of one session

(***************************************************************************)
(* Small helpers.                                                          *)
(***************************************************************************)
None == <<>>

Some(x) == <<x>>

Range(s) == {s[i] : i \in DOMAIN s}

\* The elements of s at the positions in P, in order.
Pick(s, P) ==
    LET F[i \in 0..Len(s)] ==
            IF i = 0 THEN <<>>
            ELSE IF i \in P THEN Append(F[i - 1], s[i]) ELSE F[i - 1]
    IN F[Len(s)]

Abs(x) == IF x < 0 THEN -x ELSE x

RECURSIVE Gcd(_, _)
Gcd(a, b) == IF b = 0 THEN a ELSE Gcd(b, a % b)

(***************************************************************************)
(* Cell values.  A cell is missing (NaN), a rational n/d, or the square    *)
(* root of a rational (a standard deviation).                              *)
(***************************************************************************)
NaN == [k |-> "nan", n |-> 0, d |-> 1]

Rat(n, d) ==
    LET g == Gcd(Abs(n), d)
    IN [k |-> "num", n |-> n \div g, d |-> d \div g]

Num(n) == Rat(n, 1)

Sqrt(n, d) ==
    IF n = 0 THEN Num(0)
    ELSE LET g == Gcd(Abs(n), d) IN [k |-> "sqrt", n |-> n \div g, d |-> d \div g]

IsNaN(v) == v.k = "nan"

(***************************************************************************)
(* Timestamps are day numbers; NaT is pandas' missing timestamp, which     *)
(* pd.to_datetime yields for an empty date cell.  Every comparison with    *)
(* NaT is false.                                                           *)
(***************************************************************************)
NaT == -1

TsLt(a, b) == a # NaT /\ b # NaT /\ a < b

TsGe(a, b) == a # NaT /\ b # NaT /\ a >= b

(***************************************************************************)
(* A table (pandas DataFrame): the rows' identities (which row of the      *)
(* uploaded file each one is), the index, the columns, and whether the     *)
(* index is a DatetimeIndex.                                               *)
(***************************************************************************)
Table(ids, index, cols, dt) ==
    [ids |-> ids, index |-> index, cols |-> cols, dt |-> dt]

NRows(t) == Len(t.ids)

Columns(t) == DOMAIN t.cols

\* The rows of t at the positions in P (boolean-mask and slice selection).
SelectRows(t, P) ==
    Table(Pick(t.ids, P), Pick(t.index, P),
          [c \in DOMAIN t.cols |-> Pick(t.cols[c], P)], t.dt)


(***************************************************************************)
(* DataService.split_data.                                                 *)
(***************************************************************************)
\* Python's int() of the quotient n/d (d > 0): truncation toward zero.
IntTrunc(n, d) == IF n >= 0 THEN n \div d ELSE -((-n) \div d)

\* int(len(self.current_data) * split_ratio), the ratio being num/den.
SplitIndex(t, ratio) == IntTrunc(NRows(t) * ratio[1], ratio[2])

\* Whether source position k is a valid subscript of a sequence of n items
\* (Python accepts -n .. n-1), and the position it names.
PyIndexOk(n, k) == -n <= k /\ k < n

PyPos(n, k) == IF k < 0 THEN n + k + 1 ELSE k + 1

\* The bound a Python slice clamps k to, for a sequence of n items.
PySliceBound(n, k) ==
    IF k < 0 THEN (IF n + k < 0 THEN 0 ELSE n + k)
    ELSE (IF k > n THEN n ELSE k)

SplitError(e) == [error |-> e, training |-> None, testing |-> None]

SplitOk(tr, te) == [error |-> "none", training |-> Some(tr), testing |-> Some(te)]

\* A variant of RowsBefore that also takes the rows at the split date.
RowsUpTo(t, split_date) ==
    {i \in 1..NRows(t) : t.index[i] # NaT /\ split_date # NaT /\ t.index[i] <= split_date}

\* The rows whose index is before the split date / at or after it.
RowsBefore(t, split_date) == {i \in 1..NRows(t) : TsLt(t.index[i], split_date)}

RowsFrom(t, split_date) == {i \in 1..NRows(t) : TsGe(t.index[i], split_date)}

DateBasedSplit(t, split_ratio) ==
    LET split_index == SplitIndex(t, split_ratio)
    IN IF ~PyIndexOk(NRows(t), split_index) THEN SplitError("IndexError")
       ELSE LET split_date == t.index[PyPos(NRows(t), split_index)]
            IN SplitOk(SelectRows(t, RowsBefore(t, split_date)),
                       SelectRows(t, RowsFrom(t, split_date)))

IndexBasedSplit(t, split_ratio) ==
    LET cut == PySliceBound(NRows(t), SplitIndex(t, split_ratio))
    IN SplitOk(SelectRows(t, 1..cut), SelectRows(t, (cut + 1)..NRows(t)))

split_data(data, split_ratio, method) ==
    IF data = None THEN SplitError("ValueError: No data loaded")
    ELSE IF method = "date_based" /\ data[1].dt
         THEN DateBasedSplit(data[1], split_ratio)
         ELSE IndexBasedSplit(data[1], split_ratio)

(***************************************************************************)
(* Inputs of split_data: tables of 1..MaxRows rows whose index holds any   *)
(* timestamps in any order (the loader neither sorts nor drops rows with   *)
(* an empty date), ratios inside and outside (0, 1), both methods.         *)
(***************************************************************************)
Timestamps == {NaT} \cup (1..(MaxRows - 1))

SplitTables ==
    UNION {{Table([i \in 1..n |-> i], idx,
                  [c \in {<<"VWAP">>} |-> [i \in 1..n |-> Num(i)]], dt) :
               idx \in [1..n -> Timestamps], dt \in BOOLEAN} : n \in 1..MaxRows}

ValidRatios == {<<1, 4>>, <<1, 2>>, <<3, 4>>}

DegenerateRatios == {<<0, 1>>, <<1, 1>>, <<-1, 2>>, <<3, 2>>, <<-3, 2>>}

Methods == {"date_based", "index"}

Idle ==
    /\ fe_data = None
    /\ generated_features = <<>>
    /\ model = None
    /\ model_info = None
    /\ training_data = None
    /\ testing_data = None
    /\ predictions = None
    /\ actual_values = None
    /\ model_file = None
    /\ call = None
    /\ ncalls = 0

InitSplit ==
    /\ current_data \in {None} \cup {Some(t) : t \in SplitTables}
    /\ req \in [split_ratio : ValidRatios \cup DegenerateRatios, method : Methods]
    /\ Idle

\* One call of split_data on the session table.
SplitCall ==
    /\ ncalls = 0
    /\ ncalls' = 1
    /\ call' = Some([op |-> "split_data", split_ratio |-> req.split_ratio,
                     method |-> req.method,
                     result |-> split_data(current_data, req.split_ratio, req.method)])
    /\ UNCHANGED <<dataVars, modelVars, forecastVars, model_file, req>>

NextSplit == SplitCall

SpecSplit == InitSplit /\ [][NextSplit]_vars

(***************************************************************************)
(* Arithmetic of pandas' rolling aggregates, exact over the rationals.     *)
(***************************************************************************)
RatAdd(a, b) == Rat(a.n * b.d + b.n * a.d, a.d * b.d)

RatSub(a, b) == Rat(a.n * b.d - b.n * a.d, a.d * b.d)

RatMul(a, b) == Rat(a.n * b.n, a.d * b.d)

RatLess(a, b) == a.n * b.d < b.n * a.d

RECURSIVE RatSum(_)
RatSum(xs) == IF xs = <<>> THEN Num(0) ELSE RatAdd(xs[1], RatSum(Tail(xs)))

RECURSIVE RatMin(_)
RatMin(xs) ==
    IF Len(xs) = 1 THEN xs[1]
    ELSE LET m == RatMin(Tail(xs)) IN IF RatLess(xs[1], m) THEN xs[1] ELSE m

RECURSIVE RatMax(_)
RatMax(xs) ==
    IF Len(xs) = 1 THEN xs[1]
    ELSE LET m == RatMax(Tail(xs)) IN IF RatLess(m, xs[1]) THEN xs[1] ELSE m

Mean(xs) == RatMul(RatSum(xs), Rat(1, Len(xs)))

\* The sample standard deviation (ddof = 1); undefined for a single value.
Std(xs) ==
    IF Len(xs) < 2 THEN NaN
    ELSE LET mu == Mean(xs)
             sq == [i \in 1..Len(xs) |-> RatMul(RatSub(xs[i], mu), RatSub(xs[i], mu))]
             var == RatMul(RatSum(sq), Rat(1, Len(xs) - 1))
         IN Sqrt(var.n, var.d)

\* The aggregate of a full window of present values.
Aggregate(operation, xs) ==
    CASE operation = "mean" -> Mean(xs)
      [] operation = "std" -> Std(xs)
      [] operation = "min" -> RatMin(xs)
      [] operation = "max" -> RatMax(xs)

(***************************************************************************)
(* FeatureEngineer.generate_rolling_features.                              *)
(***************************************************************************)
DefaultOperations == <<"mean", "std">>

SupportedOperations == {"mean", "std", "min", "max"}

\* f"{col}_rolling_{operation}_{window}": a column name is the sequence of
\* its parts, a column of the file being a sequence of one part.
FeatureName(col, operation, window) == col \o <<"rolling", operation, window>>

\* A variant of WindowOf whose window ends one row early.
WindowShifted(j, window) == (j - window)..(j - 1)

\* The rows the trailing window ending at row j covers.
WindowOf(j, window) == (j - window + 1)..j

\* series.rolling(window=window).<operation>(): min_periods is the window, so
\* a window that is not full, or holds a missing value, gives a missing value.
Rolling(xs, window, operation) ==
    [j \in 1..Len(xs) |->
        LET W == WindowOf(j, window)
        IN IF \E i \in W : i < 1 \/ IsNaN(xs[i]) THEN NaN
           ELSE Aggregate(operation, Pick(xs, W))]

\* A variant of AddFeature that lists a name once however often it is generated.
AddFeatureOnce(st, col, window, operation) ==
    IF operation \notin SupportedOperations THEN st
    ELSE LET name == FeatureName(col, operation, window)
             f == st.frame
             values == Rolling(f.cols[col], window, operation)
         IN [frame |-> Table(f.ids, f.index,
                             [c \in DOMAIN f.cols \cup {name} |->
                                 IF c = name THEN values ELSE f.cols[c]], f.dt),
             names |-> IF name \in Range(st.names) THEN st.names
                       ELSE Append(st.names, name)]

\* dataframe[feature_name] = ...; feature_names.append(feature_name)
AddFeature(st, col, window, operation) ==
    IF operation \notin SupportedOperations THEN st
    ELSE LET name == FeatureName(col, operation, window)
             f == st.frame
             values == Rolling(f.cols[col], window, operation)
         IN [frame |-> Table(f.ids, f.index,
                             [c \in DOMAIN f.cols \cup {name} |->
                                 IF c = name THEN values ELSE f.cols[c]], f.dt),
             names |-> Append(st.names, name)]

RECURSIVE OperationLoop(_, _, _, _, _)
OperationLoop(st, col, window, operations, k) ==
    IF k > Len(operations) THEN st
    ELSE OperationLoop(AddFeature(st, col, window, operations[k]),
                       col, window, operations, k + 1)

RECURSIVE WindowLoop(_, _, _, _, _)
WindowLoop(st, col, windows, operations, k) ==
    IF k > Len(windows) THEN st
    ELSE WindowLoop(OperationLoop(st, col, windows[k], operations, 1),
                    col, windows, operations, k + 1)

RECURSIVE ColumnLoop(_, _, _, _, _)
ColumnLoop(st, columns, windows, operations, k) ==
    IF k > Len(columns) THEN st
    ELSE IF columns[k] \notin Columns(st.frame)
         THEN ColumnLoop(st, columns, windows, operations, k + 1)
         ELSE ColumnLoop(WindowLoop(st, columns[k], windows, operations, 1),
                         columns, windows, operations, k + 1)

\* A variant of CompleteRows that looks at the generated columns only.
CompleteInFeatures(f, names) ==
    {i \in 1..NRows(f) : \A c \in Range(names) : ~IsNaN(f.cols[c][i])}

\* The rows without a missing value in any column.
CompleteRows(f, names) ==
    {i \in 1..NRows(f) : \A c \in Columns(f) : ~IsNaN(f.cols[c][i])}

\* dataframe.dropna(inplace=True)
DropNa(f, names) == SelectRows(f, CompleteRows(f, names))

\* The call's outcome: the frame before dropna, the table returned and the
\* feature names.
generate_rolling_features(data, columns, windows, operations) ==
    LET ops == IF operations = None THEN DefaultOperations ELSE operations[1]
        st == ColumnLoop([frame |-> data, names |-> <<>>], columns, windows, ops, 1)
    IN [frame |-> st.frame, out |-> DropNa(st.frame, st.names), names |-> st.names]

\* FeatureEngineer.get_feature_info (the preview left out).
get_feature_info(data, names) ==
    IF data = None
    THEN [feature_count |-> 0, feature_names |-> <<>>, rows |-> 0, columns |-> 0]
    ELSE [feature_count |-> Len(names), feature_names |-> names,
          rows |-> NRows(data[1]), columns |-> Cardinality(Columns(data[1]))]

(***************************************************************************)
(* Inputs of generate_rolling_features: tables of the columns High and,    *)
(* for some, Low; requests naming columns of the file or an absent column. *)
(***************************************************************************)
High == <<"High">>

Low == <<"Low">>

Volume == <<"Volume">>

HighValues == {NaN, Num(1), Num(2)}

\* Low columns: every value present, or one value missing.
LowColumns(n) ==
    {[i \in 1..n |-> Num(3)]} \cup {[i \in 1..n |-> IF i = m THEN NaN ELSE Num(3)] : m \in 1..n}

FeatTablesOf(n) ==
    {Table([i \in 1..n |-> i], [i \in 1..n |-> i], [c \in {High} |-> h], TRUE) :
        h \in [1..n -> HighValues]}
    \cup
    {Table([i \in 1..n |-> i], [i \in 1..n |-> i],
           [c \in {High, Low} |-> IF c = High THEN [i \in 1..n |-> Num(1 + (i % 2))] ELSE l],
           TRUE) :
        l \in LowColumns(n)}

FeatTables == UNION {FeatTablesOf(n) : n \in 1..MaxFeatRows}

ColumnLists ==
    {<<High>>, <<Volume>>, <<High, Volume>>, <<Volume, High>>, <<High, High>>, <<Low, High>>}

\* The handler passes [window1, window2].
WindowPairs == {<<v, w>> : v \in 1..MaxWindow, w \in 1..MaxWindow}

WindowLists == {<<w>> : w \in 1..MaxWindow}

OperationLists ==
    {<<"mean">>, <<"std">>, <<"min">>, <<"max">>, <<"max", "min">>, <<"min", "min">>}

FeatRequests ==
    [columns : ColumnLists, windows : WindowPairs, operations : {None}]
    \cup [columns : {<<High>>}, windows : WindowLists,
          operations : {Some(o) : o \in OperationLists}]

InitFeat ==
    /\ current_data \in {None} \cup {Some(t) : t \in FeatTables}
    /\ req \in FeatRequests
    /\ Idle

\* A variant of GenerateFeaturesWith that leaves the session table as it was.
GenerateFeaturesOnCopy(rq) ==
    /\ ncalls' = ncalls + 1
    /\ IF current_data = None
       THEN /\ call' = Some([op |-> "generate_features", error |-> "ValueError: No data loaded",
                             columns |-> rq.columns, windows |-> rq.windows,
                             operations |-> rq.operations, data |-> None])
            /\ UNCHANGED dataVars
       ELSE \E r \in {generate_rolling_features(current_data[1], rq.columns,
                                                 rq.windows, rq.operations)} :
               /\ current_data' = current_data
               /\ fe_data' = Some(r.out)
               /\ generated_features' = r.names
               /\ call' = Some([op |-> "generate_features", error |-> "none",
                                columns |-> rq.columns, windows |-> rq.windows,
                                operations |-> rq.operations,
                                data |-> current_data, frame |-> r.frame,
                                out |-> r.out,
                                result |-> get_feature_info(Some(r.out), r.names)])
    /\ UNCHANGED <<modelVars, forecastVars, model_file, req>>

\* DataService.generate_rolling_features, as the generate_features handler
\* calls it with the request rq: the table returned becomes the session table.
GenerateFeaturesWith(rq) ==
    /\ ncalls' = ncalls + 1
    /\ IF current_data = None
       THEN /\ call' = Some([op |-> "generate_features", error |-> "ValueError: No data loaded",
                             columns |-> rq.columns, windows |-> rq.windows,
                             operations |-> rq.operations, data |-> None])
            /\ UNCHANGED dataVars
       ELSE \E r \in {generate_rolling_features(current_data[1], rq.columns,
                                                 rq.windows, rq.operations)} :
               /\ current_data' = Some(r.out)
               /\ fe_data' = Some(r.out)
               /\ generated_features' = r.names
               /\ call' = Some([op |-> "generate_features", error |-> "none",
                                columns |-> rq.columns, windows |-> rq.windows,
                                operations |-> rq.operations,
                                data |-> current_data, frame |-> r.frame,
                                out |-> r.out,
                                result |-> get_feature_info(Some(r.out), r.names)])
    /\ UNCHANGED <<modelVars, forecastVars, model_file, req>>

GenerateFeaturesCall ==
    /\ ncalls < MaxCalls
    /\ GenerateFeaturesWith(req)

NextFeat == GenerateFeaturesCall

SpecFeat == InitFeat /\ [][NextFeat]_vars

(***************************************************************************)
(* ModelService.  The fitted model is pmdarima's object: it remembers the  *)
(* series y and the regressors X it was fitted on, and the order and       *)
(* criterion the search settled on.  model_info is a dictionary: {} is     *)
(* None here.                                                              *)
(***************************************************************************)
max_p == 5

max_d == 2

max_q == 5

\* What the stepwise search can settle on: an order within the bounds and
\* its criterion.  The search is the library's; two results stand for it.
SearchResults ==
    {[order |-> <<0, 0, 0>>, aic |-> 3], [order |-> <<max_p, max_d, max_q>>, aic |-> 2]}

Series(index, values) == [index |-> index, values |-> values]

\* auto_arima(y=y, X=X, ...): raises (nothing to fit, no convergence), or
\* returns a fitted model.
auto_arima(y, X) ==
    {None} \cup
    (IF Len(y.values) = 0 THEN {}
     ELSE {Some([y |-> y, X |-> X, order |-> s.order, aic |-> s.aic]) : s \in SearchResults})

\* The fields of the service that a fit installs.
Fitted(m, info, training, testing) ==
    [model |-> m, model_info |-> info, training_data |-> training, testing_data |-> testing]

TrainRaised(ms, e, named) ==
    [ms |-> ms, error |-> e, named |-> named, result |-> None]

TrainReturned(ms) ==
    [ms |-> ms, error |-> "none", named |-> <<>>, result |-> ms.model_info]

MissingFeatures(training, features) ==
    SelectSeq(features, LAMBDA f : f \notin Columns(training))

ModelInfo(m, training, target_column, features, test_data) ==
    [parameters |-> m.order, aic |-> m.aic,
     training_rows |-> NRows(training),
     testing_rows |-> IF test_data = None THEN 0 ELSE NRows(test_data[1]),
     features_used |-> features, target_column |-> target_column]

\* A variant of the fit and its assignments in which the call can be left
\* between the assignment of the model and the assignments of the partitions
\* and of model_info, the other fields still being those of ms.
FitAndInstallInSteps(ms, training, target_column, features, test_data) ==
    LET y == Series(training.index, training.cols[target_column])
        X == IF features # <<>> THEN Some(features) ELSE None
    IN UNION {IF fit = None
              THEN {TrainRaised(ms, "auto_arima", <<>>)}
              ELSE {TrainReturned(Fitted(fit, Some(ModelInfo(fit[1], training, target_column,
                                                             features, test_data)),
                                         Some(training), test_data)),
                    [ms |-> Fitted(fit, ms.model_info, ms.training_data, ms.testing_data),
                     error |-> "none", named |-> <<>>,
                     result |-> Some(ModelInfo(fit[1], training, target_column,
                                               features, test_data))]}
              : fit \in auto_arima(y, X)}

\* auto_arima on the target and feature columns, and the assignments that
\* follow it.
FitAndInstall(ms, training, target_column, features, test_data) ==
    LET y == Series(training.index, training.cols[target_column])
        X == IF features # <<>> THEN Some(features) ELSE None
    IN {IF fit = None
        THEN TrainRaised(ms, "auto_arima", <<>>)
        ELSE TrainReturned(Fitted(fit, Some(ModelInfo(fit[1], training, target_column,
                                                      features, test_data)),
                                  Some(training), test_data))
        : fit \in auto_arima(y, X)}

\* A variant of train_arima that discards the held model before it looks at
\* the columns.
train_arima_reset(ms, training, target_column, features, test_data) ==
    LET cleared == Fitted(None, None, None, None)
    IN IF target_column \notin Columns(training)
       THEN {TrainRaised(cleared, "ColumnNotFound", <<target_column>>)}
       ELSE IF MissingFeatures(training, features) # <<>>
       THEN {TrainRaised(cleared, "ColumnNotFound", MissingFeatures(training, features))}
       ELSE FitAndInstall(cleared, training, target_column, features, test_data)

\* ModelService.train_arima on the service fields ms: the outcomes the call
\* can have, each with the fields it leaves, the error raised and the columns
\* the error message names.
train_arima(ms, training, target_column, features, test_data) ==
    IF target_column \notin Columns(training)
    THEN {TrainRaised(ms, "ColumnNotFound", <<target_column>>)}
    ELSE IF MissingFeatures(training, features) # <<>>
    THEN {TrainRaised(ms, "ColumnNotFound", MissingFeatures(training, features))}
    ELSE FitAndInstall(ms, training, target_column, features, test_data)

(***************************************************************************)
(* ModelService.predict.  model.predict is the library's: it raises for a  *)
(* horizon below one and when the regressors handed to it do not match the *)
(* fit (none for a model fitted with X, or a row count other than the      *)
(* horizon); its values are left uninterpreted, the value of step i being  *)
(* the pair of the model and i.                                            *)
(***************************************************************************)
PredictRaised(fc, e) == [fc |-> fc, error |-> e, result |-> None]

ModelPredictOk(m, n_periods, X) ==
    /\ n_periods >= 1
    /\ (m.X # None) => (X # None /\ NRows(X[1]) = n_periods)

ModelPredict(m, n_periods) == [i \in 1..n_periods |-> [model |-> m, step |-> i]]

\* self.testing_data.index[:n_periods] and .iloc[:n_periods]
FirstN(s, n_periods) == SubSeq(s, 1, PySliceBound(Len(s), n_periods))

\* A variant of FutureDates that starts at last_date itself.
FutureDatesInclusive(last_date, n_periods) ==
    [i \in 1..n_periods |-> last_date + i - 1]

\* The n_periods days after last_date.
FutureDates(last_date, n_periods) ==
    [i \in 1..n_periods |-> last_date + i]

\* The part of predict after the forecast is made: dates, actual values and
\* the two assignments.
StoreForecast(ms, fc, forecast, n_periods) ==
    IF ms.testing_data # None
    THEN LET testing == ms.testing_data[1]
             dates == FirstN(testing.index, n_periods)
         IN IF ms.model_info = None \/ ms.model_info[1].target_column \notin Columns(testing)
            THEN PredictRaised(fc, "KeyError")
            ELSE LET actual == FirstN(testing.cols[ms.model_info[1].target_column], n_periods)
                 IN IF dates # <<>> /\ Len(dates) # Len(forecast)
                    THEN PredictRaised(fc, "ValueError: length mismatch")
                    ELSE [fc |-> [predictions |-> Some(Series(IF dates # <<>> THEN dates
                                                              ELSE [i \in 1..n_periods |-> i - 1],
                                                              forecast)),
                                  actual_values |-> IF actual # <<>>
                                                    THEN Some(Series(dates, actual))
                                                    ELSE fc.actual_values],
                          error |-> "none",
                          result |-> Some([values |-> forecast, dates |-> dates,
                                           actual |-> Some(actual), n_periods |-> n_periods])]
    ELSE IF ms.training_data = None THEN PredictRaised(fc, "AttributeError")
    ELSE IF NRows(ms.training_data[1]) = 0 THEN PredictRaised(fc, "IndexError")
    ELSE IF ms.training_data[1].index[NRows(ms.training_data[1])] = NaT
    THEN PredictRaised(fc, "ValueError: date_range from NaT")
    ELSE LET training == ms.training_data[1]
             dates == FutureDates(training.index[NRows(training)], n_periods)
         IN [fc |-> [predictions |-> Some(Series(dates, forecast)),
                     actual_values |-> fc.actual_values],
             error |-> "none",
             result |-> Some([values |-> forecast, dates |-> dates,
                              actual |-> None, n_periods |-> n_periods])]

\* The part of predict from the choice of the regressors on.
Forecast(ms, fc, n_periods) ==
    LET features == IF ms.model_info = None THEN <<>> ELSE ms.model_info[1].features_used
        wantsX == ms.testing_data # None /\ features # <<>>
    IN IF wantsX /\ ~(Range(features) \subseteq Columns(ms.testing_data[1]))
       THEN PredictRaised(fc, "KeyError")
       ELSE LET X == IF wantsX THEN ms.testing_data ELSE None
            IN IF ~ModelPredictOk(ms.model[1], n_periods, X)
               THEN PredictRaised(fc, "model.predict")
               ELSE StoreForecast(ms, fc, ModelPredict(ms.model[1], n_periods), n_periods)

\* ModelService.predict(n_periods) on the service fields ms and the held
\* forecast fc.
predict(ms, fc, n_periods) ==
    IF ms.model = None THEN PredictRaised(fc, "ValueError: No trained model available")
    ELSE IF n_periods = None
    THEN IF ms.testing_data # None
         THEN Forecast(ms, fc, NRows(ms.testing_data[1]))
         ELSE PredictRaised(fc, "ValueError: n_periods must be specified")
    ELSE Forecast(ms, fc, n_periods[1])

(***************************************************************************)
(* ModelService.save_model and load_model.  A pickle file holds a          *)
(* dictionary: a record whose DOMAIN is the dictionary's keys.             *)
(***************************************************************************)
LoadReturned(ms, ok) == [ms |-> ms, result |-> ok]

save_model(ms) ==
    [model |-> ms.model[1], model_info |-> ms.model_info,
     training_data |-> ms.training_data, testing_data |-> ms.testing_data]

DictGet(data, key) == IF key \in DOMAIN data THEN data[key] ELSE None

\* ModelService.load_model on the content of the file (None: no such file).
load_model(ms, file) ==
    IF file = None THEN LoadReturned(ms, FALSE)
    ELSE LET data == file[1]
         IN IF "model" \notin DOMAIN data THEN LoadReturned(ms, FALSE)
            ELSE IF "model_info" \notin DOMAIN data
            THEN LoadReturned([ms EXCEPT !.model = Some(data.model)], FALSE)
            ELSE LoadReturned(Fitted(Some(data.model), data.model_info,
                                     DictGet(data, "training_data"),
                                     DictGet(data, "testing_data")), TRUE)

(***************************************************************************)
(* ModelService.calculate_metrics, on the values of the two held series.   *)
(* Floats are exact rationals, NaN and the two infinities; rmse is the     *)
(* square root of a rational, kept symbolic.                               *)
(***************************************************************************)
PosInf == [k |-> "inf", n |-> 1, d |-> 1]

NegInf == [k |-> "inf", n |-> -1, d |-> 1]

IsInf(v) == v.k = "inf"

IsFinite(v) == v.k \in {"num", "sqrt"}

RatAbs(a) == Rat(Abs(a.n), a.d)

\* a / b for b # 0.
RatDiv(a, b) == Rat((IF b.n < 0 THEN -1 ELSE 1) * a.n * b.d, a.d * Abs(b.n))

Min(a, b) == IF a < b THEN a ELSE b

\* np.abs(a) > 1e-10 for a rational a = n/d: d/|n| < 10^10, the quotient
\* compared in two steps of 10^5.
AboveThreshold(a) == a.n # 0 /\ ((a.d \div Abs(a.n)) \div 100000) < 100000

\* A variant of Aligned that keeps the last min_len entries.
AlignedTail(values, min_len) == SubSeq(values, Len(values) - min_len + 1, Len(values))

\* values[:min_len]
Aligned(values, min_len) == SubSeq(values, 1, min_len)

\* A variant of ValidMask that looks at the actual values alone.
ValidMaskActualOnly(pred_values, actual_vals) ==
    {i \in DOMAIN actual_vals : IsFinite(actual_vals[i])}

\* np.isfinite(pred_values) & np.isfinite(actual_values)
ValidMask(pred_values, actual_vals) ==
    {i \in DOMAIN pred_values : IsFinite(pred_values[i]) /\ IsFinite(actual_vals[i])}

NanCount(values) == Cardinality({i \in DOMAIN values : IsNaN(values[i])})

InfCount(values) == Cardinality({i \in DOMAIN values : IsInf(values[i])})

\* The counts of the log line and of the error message.
Diagnostics(pred_values, actual_vals) ==
    [total |-> Len(pred_values),
     valid |-> Cardinality(ValidMask(pred_values, actual_vals)),
     nan_pred_count |-> NanCount(pred_values),
     nan_actual_count |-> NanCount(actual_vals),
     inf_pred_count |-> InfCount(pred_values),
     inf_actual_count |-> InfCount(actual_vals)]

\* A variant of mean_absolute_error that averages the signed errors.
MeanError(actual_clean, pred_clean) ==
    Mean([i \in DOMAIN actual_clean |-> RatSub(actual_clean[i], pred_clean[i])])

mean_absolute_error(actual_clean, pred_clean) ==
    Mean([i \in DOMAIN actual_clean |-> RatAbs(RatSub(actual_clean[i], pred_clean[i]))])

mean_squared_error(actual_clean, pred_clean) ==
    Mean([i \in DOMAIN actual_clean |->
             RatMul(RatSub(actual_clean[i], pred_clean[i]),
                    RatSub(actual_clean[i], pred_clean[i]))])

\* A variant of Mape that reports zero when no actual value is away from zero.
MapeOrZero(actual_clean, pred_clean) ==
    LET non_zero_mask == {i \in DOMAIN actual_clean : AboveThreshold(actual_clean[i])}
        a == Pick(actual_clean, non_zero_mask)
        p == Pick(pred_clean, non_zero_mask)
    IN IF non_zero_mask # {}
       THEN Some(RatMul(Mean([i \in DOMAIN a |-> RatAbs(RatDiv(RatSub(a[i], p[i]), a[i]))]),
                        Num(100)))
       ELSE Some(Num(0))

\* mape, or None.
Mape(actual_clean, pred_clean) ==
    LET non_zero_mask == {i \in DOMAIN actual_clean : AboveThreshold(actual_clean[i])}
        a == Pick(actual_clean, non_zero_mask)
        p == Pick(pred_clean, non_zero_mask)
    IN IF non_zero_mask # {}
       THEN Some(RatMul(Mean([i \in DOMAIN a |-> RatAbs(RatDiv(RatSub(a[i], p[i]), a[i]))]),
                        Num(100)))
       ELSE None

\* np.diff(values) > 0
Direction(values) ==
    [i \in 1..(Len(values) - 1) |-> RatLess(values[i], values[i + 1])]

\* directional_accuracy, or None.
DirectionalAccuracy(actual_clean, pred_clean) ==
    IF Len(actual_clean) > 1
    THEN LET actual_direction == Direction(actual_clean)
             pred_direction == Direction(pred_clean)
             agree == {i \in DOMAIN actual_direction : actual_direction[i] = pred_direction[i]}
         IN Some(Rat(100 * Cardinality(agree), Len(actual_direction)))
    ELSE None

\* np.asarray(values, dtype=np.float64).  A value the fitted model forecast
\* (ModelPredict) is a finite number the library computed: the number of its
\* step stands for it.
AsFloat(values) ==
    [i \in DOMAIN values |-> IF "k" \in DOMAIN values[i] THEN values[i]
                             ELSE Num(values[i].step)]

MetricsRaised(e, log) == [error |-> e, metrics |-> None, log |-> log]

Metrics(actual_clean, pred_clean) ==
    LET mse == mean_squared_error(actual_clean, pred_clean)
    IN [mse |-> mse, rmse |-> Sqrt(mse.n, mse.d),
        mae |-> mean_absolute_error(actual_clean, pred_clean),
        mape |-> Mape(actual_clean, pred_clean),
        directional_accuracy |-> DirectionalAccuracy(actual_clean, pred_clean)]

\* ModelService.calculate_metrics on the held series (None: not held).
calculate_metrics(pred_series, actual_series) ==
    IF pred_series = None \/ actual_series = None
    THEN MetricsRaised("ValueError: Predictions and actual values required for metrics", None)
    ELSE LET min_len == Min(Len(pred_series[1].values), Len(actual_series[1].values))
             pred_values == AsFloat(Aligned(pred_series[1].values, min_len))
             actual_vals == AsFloat(Aligned(actual_series[1].values, min_len))
             valid_mask == ValidMask(pred_values, actual_vals)
             log == Some(Diagnostics(pred_values, actual_vals))
         IN IF min_len = 0
            THEN MetricsRaised("ValueError: No predictions and actual values available for metrics",
                               None)
            ELSE IF valid_mask = {}
            THEN MetricsRaised("ValueError: No valid (finite) predictions and actual values available",
                               log)
            ELSE [error |-> "none",
                  metrics |-> Some(Metrics(Pick(actual_vals, valid_mask),
                                           Pick(pred_values, valid_mask))),
                  log |-> log]

(***************************************************************************)
(* Inputs of calculate_metrics: a forecast and an actual series of up to   *)
(* MaxMetricLen values each, of any two lengths, with missing, infinite,   *)
(* zero and ordinary values.                                               *)
(***************************************************************************)
PredValues == {NaN, Num(1), Num(3)}

ActualValues == {NaN, PosInf, Num(0), Num(2)}

SeriesOf(values) == Series([i \in DOMAIN values |-> i], values)

\* The worked examples of the metrics: a forecast and the actual values.
ExamplePairs ==
    {[pred |-> SeriesOf(<<Num(1), Num(2), Num(3)>>),
      actual |-> SeriesOf(<<Num(1), Num(2), Num(4)>>)],
     [pred |-> SeriesOf(<<Num(1), Num(3), Num(0), Num(4)>>),
      actual |-> SeriesOf(<<Num(1), Num(2), Num(1), Num(3)>>)]}

SeriesOver(V) ==
    UNION {{SeriesOf(vs) : vs \in [1..n -> V]} : n \in 0..MaxMetricLen}

InitMetrics ==
    /\ current_data = None
    /\ req = None
    /\ fe_data = None
    /\ generated_features = <<>>
    /\ model = None
    /\ model_info = None
    /\ training_data = None
    /\ testing_data = None
    /\ \/ /\ predictions \in {Some(s) : s \in SeriesOver(PredValues)}
          /\ actual_values \in {Some(s) : s \in SeriesOver(ActualValues)}
       \/ \E e \in ExamplePairs :
             /\ predictions = Some(e.pred)
             /\ actual_values = Some(e.actual)
    /\ model_file = None
    /\ call = None
    /\ ncalls = 0

\* calculate_metrics, as the metrics handler calls it.
CalculateMetrics ==
    /\ ncalls = 0
    /\ ncalls' = 1
    /\ \E r \in {calculate_metrics(predictions, actual_values)} :
          call' = Some([op |-> "metrics", error |-> r.error, result |-> r.metrics,
                        log |-> r.log])
    /\ UNCHANGED <<dataVars, modelVars, forecastVars, model_file, req>>

NextMetrics == CalculateMetrics

SpecMetrics == InitMetrics /\ [][NextMetrics]_vars

(***************************************************************************)
(* The session: the request handlers of routes.py and the service calls    *)
(* save_model / load_model, on the two service singletons.  Each handler   *)
(* runs to completion; call records the last request and its response.     *)
(***************************************************************************)
VWAP == <<"VWAP">>

Close == <<"Close">>

\* The uploaded file: rows on consecutive days, the target column VWAP and
\* the column High.
SessionTable(n) ==
    Table([i \in 1..n |-> i], [i \in 1..n |-> i],
          [c \in {VWAP, High} |-> [i \in 1..n |-> IF c = VWAP THEN Num(i) ELSE Num(1 + (i % 2))]],
          TRUE)

UploadTables == {SessionTable(MaxRows)}

SessionRequests == {[columns |-> <<High>>, windows |-> <<2, 2>>, operations |-> None]}

TrainSplits == {<<1, 2>>, <<1, 1>>}

TargetColumns == {VWAP, Close}

FeatureArgs == {None, Some(<<Volume>>), Some(<<High>>)}

Horizons == {None, Some(1), Some(MaxRows)}

\* A pickle written by something other than save_model: a dictionary with
\* the key 'model' alone.
ForeignModel ==
    [y |-> Series(<<1>>, <<Num(1)>>), X |-> None, order |-> <<0, 0, 0>>, aic |-> 1]

\* A pickle of a model fitted elsewhere without a testing partition: the
\* keys 'model', 'model_info' and 'training_data'.
TrainingOnlyFile ==
    LET training == SessionTable(2)
        m == [y |-> Series(training.index, training.cols[VWAP]), X |-> None,
              order |-> <<0, 0, 0>>, aic |-> 3]
    IN [model |-> m, model_info |-> Some(ModelInfo(m, training, VWAP, <<>>, None)),
        training_data |-> Some(training)]

ForeignFiles == {[model |-> ForeignModel], TrainingOnlyFile}

model_service == Fitted(model, model_info, training_data, testing_data)

held_forecast == [predictions |-> predictions, actual_values |-> actual_values]

Init ==
    /\ current_data = None
    /\ req = None
    /\ Idle

Step ==
    /\ ncalls < MaxSteps
    /\ ncalls' = ncalls + 1

\* POST /api/data/upload
UploadData ==
    /\ Step
    /\ \E t \in UploadTables :
          /\ current_data' = Some(t)
          /\ call' = Some([op |-> "upload", status |-> 200, error |-> "none"])
    /\ UNCHANGED <<fe_data, generated_features, modelVars, forecastVars, model_file, req>>

\* POST /api/features/generate
GenerateFeatures ==
    /\ ncalls < MaxSteps
    /\ \E rq \in SessionRequests : GenerateFeaturesWith(rq)

\* POST /api/model/train
TrainModel ==
    /\ Step
    /\ \E train_split \in TrainSplits, target_column \in TargetColumns, features \in FeatureArgs :
          IF current_data = None
          THEN /\ call' = Some([op |-> "train", status |-> 400, error |-> "No data loaded"])
               /\ UNCHANGED modelVars
          ELSE \E s \in {split_data(current_data, train_split, "date_based")} :
                  IF s.error # "none"
                  THEN /\ call' = Some([op |-> "train", status |-> 500, error |-> s.error])
                       /\ UNCHANGED modelVars
                  ELSE \E fs \in {IF features = None \/ features[1] = <<>>
                                  THEN generated_features ELSE features[1]} :
                       \E r \in train_arima(model_service, s.training[1], target_column, fs, s.testing) :
                          /\ model' = r.ms.model
                          /\ model_info' = r.ms.model_info
                          /\ training_data' = r.ms.training_data
                          /\ testing_data' = r.ms.testing_data
                          /\ call' = Some([op |-> "train",
                                           status |-> IF r.error = "none" THEN 200 ELSE 500,
                                           error |-> r.error, named |-> r.named,
                                           training_data |-> s.training[1],
                                           target_column |-> target_column,
                                           features |-> fs, result |-> r.result])
    /\ UNCHANGED <<dataVars, forecastVars, model_file, req>>

\* POST /api/predict
MakePredictions ==
    /\ Step
    /\ \E n_periods \in Horizons :
          IF model = None
          THEN /\ call' = Some([op |-> "predict", status |-> 400,
                                error |-> "No trained model available"])
               /\ UNCHANGED forecastVars
          ELSE \E r \in {predict(model_service, held_forecast, n_periods)} :
                  /\ predictions' = r.fc.predictions
                  /\ actual_values' = r.fc.actual_values
                  /\ call' = Some([op |-> "predict",
                                   status |-> IF r.error = "none" THEN 200 ELSE 500,
                                   error |-> r.error, n_periods |-> n_periods,
                                   result |-> r.result])
    /\ UNCHANGED <<dataVars, modelVars, model_file, req>>

\* ModelService.save_model(file_path)
SaveModel ==
    /\ Step
    /\ IF model = None
       THEN /\ call' = Some([op |-> "save_model", result |-> FALSE])
            /\ UNCHANGED model_file
       ELSE /\ model_file' = Some(save_model(model_service))
            /\ call' = Some([op |-> "save_model", result |-> TRUE])
    /\ UNCHANGED <<dataVars, modelVars, forecastVars, req>>

\* ModelService.load_model(file_path), on the file save_model wrote or on a
\* foreign one.
LoadModel ==
    /\ Step
    /\ \E file \in {model_file} \cup {Some(f) : f \in ForeignFiles} :
       \E r \in {load_model(model_service, file)} :
          /\ model' = r.ms.model
          /\ model_info' = r.ms.model_info
          /\ training_data' = r.ms.training_data
          /\ testing_data' = r.ms.testing_data
          /\ call' = Some([op |-> "load_model", file |-> file, result |-> r.result])
    /\ UNCHANGED <<dataVars, forecastVars, model_file, req>>

\* A variant of GetMetrics that answers without looking at what is held.
GetMetricsUnchecked ==
    /\ Step
    /\ IF predictions = None \/ actual_values = None
       THEN call' = Some([op |-> "metrics", status |-> 200, error |-> "none",
                          result |-> None, log |-> None])
       ELSE \E r \in {calculate_metrics(predictions, actual_values)} :
               call' = Some([op |-> "metrics", status |-> IF r.error = "none" THEN 200 ELSE 400,
                             error |-> r.error, result |-> r.metrics, log |-> r.log])
    /\ UNCHANGED <<dataVars, modelVars, forecastVars, model_file, req>>

\* GET /api/metrics
GetMetrics ==
    /\ Step
    /\ IF predictions = None
       THEN call' = Some([op |-> "metrics", status |-> 400,
                          error |-> "No predictions available", result |-> None, log |-> None])
       ELSE IF actual_values = None
       THEN call' = Some([op |-> "metrics", status |-> 400,
                          error |-> "Actual values are required for metrics calculation",
                          result |-> None, log |-> None])
       ELSE \E r \in {calculate_metrics(predictions, actual_values)} :
               call' = Some([op |-> "metrics", status |-> IF r.error = "none" THEN 200 ELSE 400,
                             error |-> r.error, result |-> r.metrics, log |-> r.log])
    /\ UNCHANGED <<dataVars, modelVars, forecastVars, model_file, req>>

Next ==
    \/ UploadData
    \/ GenerateFeatures
    \/ TrainModel
    \/ MakePredictions
    \/ GetMetrics
    \/ SaveModel
    \/ LoadModel

Spec == Init /\ [][Next]_vars

\* The session driven through the request handlers alone.
NextRoutes ==
    \/ UploadData
    \/ GenerateFeatures
    \/ TrainModel
    \/ MakePredictions
    \/ GetMetrics

SpecRoutes == Init /\ [][NextRoutes]_vars

(***************************************************************************)
(* Properties of split_data (checked under SpecSplit).                     *)
(***************************************************************************)
RatioInside(r) == 0 < r[1] /\ r[1] < r[2]

SplitDone == call # None /\ call[1].op = "split_data" /\ current_data # None

OnDatePath == call[1].method = "date_based" /\ current_data[1].dt

NoNaT(t) == \A i \in 1..NRows(t) : t.index[i] # NaT

\* C1: for every loaded table and every ratio r with 0 < r < 1, split_data
\* returns a pair whose row counts sum to the table's row count, every row of
\* the table being in exactly one of the two parts, on both paths.
C1_SplitKeepsEveryRow ==
    (SplitDone /\ RatioInside(call[1].split_ratio)) =>
        LET t == current_data[1]
            res == call[1].result
        IN /\ res.error = "none"
           /\ NRows(res.training[1]) + NRows(res.testing[1]) = NRows(t)
           /\ \A i \in 1..NRows(t) :
                Cardinality({j \in 1..NRows(res.training[1]) : res.training[1].ids[j] = t.ids[i]})
                + Cardinality({j \in 1..NRows(res.testing[1]) : res.testing[1].ids[j] = t.ids[i]})
                = 1

\* C2: on the date-based path, with cut_index = floor(row_count * r) and
\* cut_timestamp the index value at cut_index, training is exactly the rows
\* with timestamp < cut_timestamp and testing exactly the rows with timestamp
\* >= cut_timestamp; so every training timestamp precedes every testing
\* timestamp and every row at the cut timestamp is in testing, even when
\* training is then shorter than cut_index rows.
C2_DateSplitAtCutTimestamp ==
    (SplitDone /\ OnDatePath /\ RatioInside(call[1].split_ratio)) =>
        LET t == current_data[1]
            r == call[1].split_ratio
            cut_index == (NRows(t) * r[1]) \div r[2]
            cut == t.index[cut_index + 1]
            res == call[1].result
            lt(a, b) == a # NaT /\ b # NaT /\ a < b
            ge(a, b) == a # NaT /\ b # NaT /\ a >= b
        IN /\ res.error = "none"
           /\ res.training[1] = SelectRows(t, {i \in 1..NRows(t) : lt(t.index[i], cut)})
           /\ res.testing[1] = SelectRows(t, {i \in 1..NRows(t) : ge(t.index[i], cut)})
           /\ \A a \in Range(res.training[1].index), b \in Range(res.testing[1].index) : lt(a, b)
           /\ \A i \in 1..NRows(t) :
                (cut # NaT /\ t.index[i] = cut) =>
                    /\ t.ids[i] \in Range(res.testing[1].ids)
                    /\ t.ids[i] \notin Range(res.training[1].ids)

\* A date-based split where two rows share the cut timestamp, so that the
\* training part is non-empty but shorter than cut_index rows.
C2_Witness ==
    /\ SplitDone /\ OnDatePath /\ RatioInside(call[1].split_ratio)
    /\ call[1].result.error = "none"
    /\ LET t == current_data[1]
           r == call[1].split_ratio
           cut_index == (NRows(t) * r[1]) \div r[2]
       IN /\ NRows(call[1].result.training[1]) > 0
          /\ NRows(call[1].result.training[1]) < cut_index
          /\ Cardinality({i \in 1..NRows(t) : t.index[i] = t.index[cut_index + 1]}) >= 2

\* C3: for every non-empty table and every ratio r with 0 < r < 1 both parts
\* returned by split_data are non-empty (stated here for the tables whose
\* timestamps are all present).
C3_SplitPartsNonEmpty ==
    (SplitDone /\ RatioInside(call[1].split_ratio) /\ NoNaT(current_data[1])) =>
        /\ call[1].result.error = "none"
        /\ NRows(call[1].result.training[1]) > 0
        /\ NRows(call[1].result.testing[1]) > 0

\* C4: split_data called with a degenerate ratio (r <= 0 or r >= 1) is rejected
\* with InvalidSplitRatio and returns no pair; it never returns a pair with an
\* empty part and never fails with an unrelated error.
C4_DegenerateRatioRejected ==
    (SplitDone /\ ~RatioInside(call[1].split_ratio)) =>
        /\ call[1].result.error = "InvalidSplitRatio"
        /\ call[1].result.training = None
        /\ call[1].result.testing = None

(***************************************************************************)
(* Properties of generate_rolling_features (checked under SpecFeat).       *)
(***************************************************************************)
FeatCalled == call # None /\ call[1].op = "generate_features"

FeatDone == FeatCalled /\ call[1].error = "none"

RequestedOperations ==
    IF call[1].operations = None THEN <<"mean", "std">> ELSE call[1].operations[1]

\* The position in table t of the row whose identity is id.
PosIn(t, id) == CHOOSE i \in 1..NRows(t) : t.ids[i] = id

\* C5: for every source column present in the table, every window w and every
\* operation, the derived column has at row i >= w-1 the aggregate of source
\* rows i-w+1..i, and all rows before w-1 are absent from the returned table.
C5_RollingWindowValues ==
    FeatDone =>
        LET in == call[1].data[1]
            frame == call[1].frame
            out == call[1].out
        IN \A col \in Range(call[1].columns) \cap Columns(in),
              w \in Range(call[1].windows), o \in Range(RequestedOperations) :
              LET name == col \o <<"rolling", o, w>>
                  window(i) == [m \in 1..w |-> in.cols[col][i - w + m]]
              IN /\ name \in Columns(frame) /\ name \in Columns(out)
                 /\ \A i \in 1..NRows(in) :
                      i >= w =>
                        frame.cols[name][i] =
                            IF \E m \in 1..w : window(i)[m].k = "nan" THEN NaN
                            ELSE Aggregate(o, window(i))
                 /\ \A k \in 1..NRows(out) :
                      LET i == PosIn(in, out.ids[k])
                      IN i >= w /\ out.cols[name][k] = Aggregate(o, window(i))
                 /\ \A i \in 1..NRows(in) : i < w => in.ids[i] \notin Range(out.ids)

\* A call with a window of two or more rows that drops the leading rows and
\* returns a later row with its aggregate.
C5_Witness ==
    /\ FeatDone
    /\ \E col \in Range(call[1].columns) \cap Columns(call[1].data[1]),
          w \in Range(call[1].windows) :
          /\ w >= 2
          /\ NRows(call[1].data[1]) > w
          /\ NRows(call[1].out) >= 2
          /\ col \o <<"rolling", "mean", w>> \in Columns(call[1].out)
          /\ call[1].out.cols[col \o <<"rolling", "mean", w>>][1].d = w

\* C6: the table returned holds, in their original order, exactly the input
\* rows with no missing value in any column, source or derived: a row is
\* dropped if and only if one of its cells is missing after all features are
\* computed, and the kept rows keep their source values unchanged.
C6_DropsExactlyIncompleteRows ==
    FeatDone =>
        LET in == call[1].data[1]
            frame == call[1].frame
            out == call[1].out
            names == call[1].result.feature_names
            keep == {i \in 1..NRows(in) :
                        \A c \in Columns(frame) : frame.cols[c][i].k # "nan"}
        IN /\ frame.ids = in.ids
           /\ Columns(out) = Columns(frame)
           /\ out.ids = Pick(in.ids, keep)
           /\ out.index = Pick(in.index, keep)
           /\ \A c \in Columns(in) \ Range(names) : out.cols[c] = Pick(in.cols[c], keep)
           /\ \A c \in Columns(in) \ Range(names) : frame.cols[c] = in.cols[c]

\* A call that drops one row for a missing source cell alone (its derived
\* cells are present), drops another for a missing derived cell, and keeps a row.
C6_Witness ==
    /\ FeatDone
    /\ NRows(call[1].out) >= 1
    /\ LET in == call[1].data[1]
           frame == call[1].frame
           names == Range(call[1].result.feature_names)
       IN /\ names # {}
          /\ \E i \in 1..NRows(in) :
                /\ in.ids[i] \notin Range(call[1].out.ids)
                /\ \A c \in names : frame.cols[c][i].k # "nan"
          /\ \E i \in 1..NRows(in) :
                /\ \A c \in Columns(in) : in.cols[c][i].k # "nan"
                /\ \E c \in names : frame.cols[c][i].k = "nan"

\* The enumeration of '{source}_rolling_{operation}_{window}': outer loop over
\* the requested columns that exist in the table, middle loop over windows,
\* inner loop over operations.
ExpectedNames ==
    LET in == call[1].data[1]
        present == SelectSeq(call[1].columns, LAMBDA c : c \in Columns(in))
        ws == call[1].windows
        os == RequestedOperations
        nW == Len(ws)
        nO == Len(os)
    IN [e \in 1..(Len(present) * nW * nO) |->
            present[((e - 1) \div (nW * nO)) + 1]
                \o <<"rolling", os[((e - 1) % nO) + 1], ws[(((e - 1) \div nO) % nW) + 1]>>]

\* The columns of the frame that the input table did not have.
AddedColumns == Columns(call[1].frame) \ Columns(call[1].data[1])

\* C7 as stated: the feature-name list equals the enumeration, with exactly
\* one name and one added column per combination; requested columns absent
\* from the table contribute no name, no column and no error.
C7_OneColumnPerCombination ==
    (FeatCalled /\ call[1].data # None) =>
        /\ call[1].error = "none"
        /\ call[1].result.feature_names = ExpectedNames
        /\ Cardinality(AddedColumns) = Len(ExpectedNames)

\* C7 as amended: the feature-name list equals the enumeration, one name per
\* combination; every name is a column of the returned table, whose columns
\* are the input's columns and the generated names, so that a combination
\* adds a column only when its name is not yet a column; requested columns
\* absent from the table contribute no name, no column and no error.
C7_NamesFollowEnumeration ==
    (FeatCalled /\ call[1].data # None) =>
        LET in == call[1].data[1]
            names == call[1].result.feature_names
        IN /\ call[1].error = "none"
           /\ names = ExpectedNames
           /\ generated_features = ExpectedNames
           /\ Columns(call[1].out) = Columns(in) \cup Range(names)
           /\ Cardinality(AddedColumns) = Cardinality(Range(names) \ Columns(in))
           /\ \A c \in Range(call[1].columns) \ Columns(in) :
                /\ c \notin Columns(call[1].out)
                /\ \A o \in SupportedOperations, w \in Range(call[1].windows) :
                     c \o <<"rolling", o, w>> \notin Columns(call[1].out)

\* A call that names an absent column and a present one with twice the same
\* window: four names are listed and two columns added.
C7_Witness ==
    /\ FeatDone
    /\ \E c \in Range(call[1].columns) : c \notin Columns(call[1].data[1])
    /\ Len(call[1].result.feature_names) = 4
    /\ Cardinality(AddedColumns) = 2

(***************************************************************************)
(* Properties of the session (checked under Spec).                         *)
(***************************************************************************)
\* The request recorded in c reached train_arima.
TrainArimaCalled(c) == c # None /\ c[1].op = "train" /\ "training_data" \in DOMAIN c[1]

\* The columns train_arima was asked for that its training table lacks.
MissingColumns(c) ==
    {col \in {c.target_column} \cup Range(c.features) : col \notin Columns(c.training_data)}

\* The request recorded in c raised or reported failure.
CallFailed(c) ==
    \/ c.op \in {"train", "predict", "upload", "metrics"} /\ c.status # 200
    \/ c.op \in {"load_model", "save_model"} /\ ~c.result
    \/ c.op = "generate_features" /\ c.error # "none"

\* C8: train_arima called with a training table that lacks the target column
\* and/or some listed feature column fails with a ColumnNotFound error whose
\* message names every missing column, the target and each missing feature
\* together.
C8_ErrorNamesEveryMissingColumn ==
    (TrainArimaCalled(call) /\ MissingColumns(call[1]) # {}) =>
        /\ call[1].error = "ColumnNotFound"
        /\ MissingColumns(call[1]) \subseteq Range(call[1].named)

\* C9: a train_arima call whose target column or a feature column is absent
\* from the training table fails and leaves model, model_info, training_data
\* and testing_data exactly as they were; every forecast is made by the model
\* held when predict is called, so a predict after the failed call uses the
\* earlier model.
C9_FailedTrainKeepsModel ==
    [][/\ (TrainArimaCalled(call') /\ MissingColumns(call'[1]) # {}) =>
              (call'[1].status = 500 /\ UNCHANGED modelVars)
       /\ (call'[1].op = "predict" /\ call'[1].status = 200) =>
              \A i \in DOMAIN predictions'[1].values :
                  predictions'[1].values[i].model = model[1]]_vars

C9_Witness ==
    /\ TrainArimaCalled(call)
    /\ MissingColumns(call[1]) # {}
    /\ call[1].error = "ColumnNotFound"
    /\ model # None
    /\ model_info # None

\* The held model_info, training_data and testing_data are those of the call
\* that installed the held model.
ModelWhole ==
    /\ model_info # None
    /\ training_data # None
    /\ model_info[1] = ModelInfo(model[1], training_data[1], model_info[1].target_column,
                                 model_info[1].features_used, testing_data)
    /\ model_info[1].target_column \in Columns(training_data[1])
    /\ model[1].y = Series(training_data[1].index,
                           training_data[1].cols[model_info[1].target_column])
    /\ model[1].X = IF model_info[1].features_used # <<>>
                    THEN Some(model_info[1].features_used) ELSE None

\* C10: in every state reached by train, load_model and predict calls, a live
\* model comes with the model_info, training_data and testing_data of the
\* call that installed it, and a call that raises or reports failure leaves
\* all four unchanged.
C10_ModelNeverPartial ==
    [][/\ (model' # None) => ModelWhole'
       /\ CallFailed(call'[1]) => UNCHANGED modelVars]_vars

\* The request recorded in c is a predict request made with a live model.
PredictCalled(c) == c # None /\ c[1].op = "predict" /\ c[1].status # 400

Increasing(s) == \A i \in 1..(Len(s) - 1) : s[i] < s[i + 1]

\* C11: for a live model and any requested horizon n_periods >= 1 (smaller
\* than, equal to or larger than the row count of the held testing
\* partition), predict returns exactly n_periods values and n_periods dates
\* in forward chronological order, and reports the requested n_periods.
\* Stated for models fitted without regressors, whose model.predict accepts
\* every horizon.
C11_ForecastHasRequestedLength ==
    (PredictCalled(call) /\ ModelWhole /\ call[1].n_periods # None
        /\ call[1].n_periods[1] >= 1 /\ model[1].X = None) =>
        /\ call[1].status = 200
        /\ Len(call[1].result[1].values) = call[1].n_periods[1]
        /\ Len(call[1].result[1].dates) = call[1].n_periods[1]
        /\ Increasing(call[1].result[1].dates)
        /\ call[1].result[1].n_periods = call[1].n_periods[1]

\* C12: predict called without n_periods while a testing partition is held
\* takes the partition's row count as n_periods, its index as the dates and
\* its target column as the actual series, paired with the forecast position
\* by position; without a testing partition, omitting n_periods is an error
\* and, n_periods given, the dates are the n_periods consecutive days after
\* the last training timestamp.
C12_DefaultHorizonAndDates ==
    (PredictCalled(call) /\ ModelWhole) =>
        LET c == call[1]
            target == model_info[1].target_column
        IN /\ (testing_data # None /\ c.n_periods = None /\ c.status = 200) =>
                 /\ c.result[1].n_periods = NRows(testing_data[1])
                 /\ c.result[1].dates = testing_data[1].index
                 /\ c.result[1].actual = Some(testing_data[1].cols[target])
                 /\ Len(c.result[1].values) = NRows(testing_data[1])
                 /\ predictions = Some(Series(testing_data[1].index, c.result[1].values))
                 /\ actual_values = Some(Series(testing_data[1].index,
                                                testing_data[1].cols[target]))
           /\ (testing_data = None /\ c.n_periods = None) =>
                 /\ c.status = 500
                 /\ c.error = "ValueError: n_periods must be specified"
           /\ (testing_data = None /\ c.n_periods # None /\ c.status = 200) =>
                 LET last_date == training_data[1].index[NRows(training_data[1])]
                 IN /\ c.result[1].dates = [i \in 1..c.n_periods[1] |-> last_date + i]
                    /\ c.result[1].actual = None
                    /\ predictions = Some(Series(c.result[1].dates, c.result[1].values))

\* A forecast of several days made by a model held without a testing
\* partition.
C12_Witness ==
    /\ PredictCalled(call) /\ ModelWhole
    /\ testing_data = None
    /\ call[1].n_periods # None /\ call[1].n_periods[1] > 1
    /\ call[1].status = 200

\* C13: every successful predict replaces the held forecast and actual
\* series as a whole: afterwards predictions is the new forecast and
\* actual_values is the actual series of this same call, or absent when the
\* call produced none; the actual series of an earlier predict is never left
\* beside the new forecast.
C13_PredictReplacesPair ==
    (PredictCalled(call) /\ call[1].status = 200) =>
        LET r == call[1].result[1]
        IN /\ predictions # None
           /\ predictions[1].values = r.values
           /\ IF r.actual = None \/ r.actual[1] = <<>>
              THEN actual_values = None
              ELSE actual_values = Some(Series(r.dates, r.actual[1]))

(***************************************************************************)
(* Properties of calculate_metrics (checked under SpecMetrics).            *)
(***************************************************************************)
MetricsDone == call # None /\ call[1].op = "metrics"

CommonLength == Min(Len(predictions[1].values), Len(actual_values[1].values))

\* C14: calculate_metrics keeps the first min(len) entries of the forecast
\* and of the actual series, whatever their timestamps, before it computes
\* anything, and fails with InsufficientData, returning no metrics, when that
\* common length is zero.
C14_TruncatesToCommonLength ==
    MetricsDone =>
        LET k == CommonLength
            pred_head == [i \in 1..k |-> predictions[1].values[i]]
            actual_head == [i \in 1..k |-> actual_values[1].values[i]]
            on_heads == calculate_metrics(Some(SeriesOf(pred_head)),
                                          Some(SeriesOf(actual_head)))
        IN /\ (k = 0) =>
                 /\ call[1].error =
                       "ValueError: No predictions and actual values available for metrics"
                 /\ call[1].result = None
           /\ (k > 0) =>
                 /\ call[1].log # None
                 /\ call[1].log[1].total = k
                 /\ call[1].log[1].valid =
                       Cardinality({i \in 1..k : IsFinite(pred_head[i])
                                                  /\ IsFinite(actual_head[i])})
                 /\ call[1].error = on_heads.error
                 /\ call[1].result = on_heads.metrics

\* Metrics of a forecast shorter than the actual series, whose extra value
\* would have changed them.
C14_Witness ==
    /\ MetricsDone
    /\ call[1].error = "none"
    /\ Len(predictions[1].values) = 2
    /\ Len(actual_values[1].values) = 3
    /\ call[1].result[1].mae = Num(1)
    /\ actual_values[1].values[3] = Num(0)

PredHead == [i \in 1..CommonLength |-> predictions[1].values[i]]

ActualHead == [i \in 1..CommonLength |-> actual_values[1].values[i]]

\* The positions where the forecast and the actual value are both finite.
FinitePairs == {i \in 1..CommonLength : PredHead[i].k = "num" /\ ActualHead[i].k = "num"}

NonFinite(values) == {i \in DOMAIN values : values[i].k # "num"}

\* C15: calculate_metrics computes every metric over exactly the positions
\* where forecast and actual value are both finite; one non-finite actual
\* value drops exactly its position from both arrays and is reported as a
\* count of 1; when no position has both values finite it fails with
\* NoValidData, which carries the count of non-finite values of each array,
\* and returns no metrics.
C15_MetricsOverFinitePairs ==
    (MetricsDone /\ CommonLength > 0) =>
        LET log == call[1].log[1]
        IN /\ log.valid = Cardinality(FinitePairs)
           /\ log.nan_pred_count + log.inf_pred_count = Cardinality(NonFinite(PredHead))
           /\ log.nan_actual_count + log.inf_actual_count = Cardinality(NonFinite(ActualHead))
           /\ IF FinitePairs = {}
              THEN /\ call[1].error =
                         "ValueError: No valid (finite) predictions and actual values available"
                   /\ call[1].result = None
              ELSE /\ call[1].error = "none"
                   /\ call[1].result = Some(Metrics(Pick(ActualHead, FinitePairs),
                                                    Pick(PredHead, FinitePairs)))
           /\ (NonFinite(PredHead) = {} /\ Cardinality(NonFinite(ActualHead)) = 1
                   /\ CommonLength > 1) =>
                 /\ call[1].error = "none"
                 /\ log.valid = CommonLength - 1
                 /\ log.nan_actual_count + log.inf_actual_count = 1

\* Metrics of three pairs whose second actual value is missing.
C15_Witness ==
    /\ MetricsDone
    /\ CommonLength = 3
    /\ NonFinite(PredHead) = {}
    /\ NonFinite(ActualHead) = {2}
    /\ call[1].error = "none"
    /\ call[1].log[1].nan_actual_count = 1
    /\ call[1].result[1].directional_accuracy # None

\* The finite-valued pairs, in order.
ActualClean == Pick(ActualHead, FinitePairs)

PredClean == Pick(PredHead, FinitePairs)

ErrorAt(i) == RatSub(ActualClean[i], PredClean[i])

\* C16: over the k finite-valued pairs (a_i, p_i) calculate_metrics returns
\* mse = sum((a_i - p_i)^2)/k, rmse = sqrt(mse) and mae = sum(|a_i - p_i|)/k,
\* each of them a number on success; forecast [1,2,3] against actual [1,2,4]
\* gives mae = 1/3, mse = 1/3 and rmse = sqrt(1/3).
C16_ErrorMetrics ==
    (MetricsDone /\ call[1].error = "none") =>
        LET k == Cardinality(FinitePairs)
            squares == [i \in 1..k |-> RatMul(ErrorAt(i), ErrorAt(i))]
            absolutes == [i \in 1..k |-> IF ErrorAt(i).n < 0
                                         THEN RatSub(Num(0), ErrorAt(i)) ELSE ErrorAt(i)]
            mse == RatMul(RatSum(squares), Rat(1, k))
            r == call[1].result[1]
        IN /\ k > 0
           /\ r.mse = mse
           /\ r.rmse = Sqrt(mse.n, mse.d)
           /\ r.mae = RatMul(RatSum(absolutes), Rat(1, k))
           /\ r.mse.k = "num" /\ r.mae.k = "num" /\ r.rmse.k \in {"num", "sqrt"}
           /\ (PredHead = <<Num(1), Num(2), Num(3)>>
                   /\ ActualHead = <<Num(1), Num(2), Num(4)>>) =>
                 /\ r.mae = Rat(1, 3)
                 /\ r.mse = Rat(1, 3)
                 /\ r.rmse = Sqrt(1, 3)

\* The metrics of forecast [1,2,3] against actual [1,2,4].
C16_Witness ==
    /\ MetricsDone
    /\ predictions[1].values = <<Num(1), Num(2), Num(3)>>
    /\ actual_values[1].values = <<Num(1), Num(2), Num(4)>>
    /\ call[1].error = "none"
    /\ call[1].result[1].rmse = Sqrt(1, 3)

\* The finite-valued positions whose actual value is away from zero.  The
\* values of the model are rationals of small denominator: |a| > 1e-10
\* exactly when a # 0.
NonZeroActual == {i \in DOMAIN ActualClean : ActualClean[i].n # 0}

PercentageErrorAt(i) ==
    LET e == ErrorAt(i)
        a == ActualClean[i]
    IN Rat(100 * Abs(e.n) * a.d, e.d * Abs(a.n))

\* C17: MAPE is the mean of |a_i - p_i| / |a_i| * 100 over the finite-valued
\* positions with |a_i| > 1e-10; positions with a zero actual value are left
\* out of MAPE but counted in mse, rmse and mae; when no position has
\* |a_i| > 1e-10 MAPE is absent (not zero, not an error) and the other
\* metrics are still returned.
C17_MapeOverNonZeroActuals ==
    (MetricsDone /\ call[1].error = "none") =>
        LET r == call[1].result[1]
            terms == Pick([i \in DOMAIN ActualClean |-> PercentageErrorAt(i)], NonZeroActual)
        IN /\ IF NonZeroActual = {}
              THEN r.mape = None
              ELSE r.mape = Some(RatMul(RatSum(terms), Rat(1, Cardinality(NonZeroActual))))
           /\ r.mse = mean_squared_error(ActualClean, PredClean)
           /\ r.mae = mean_absolute_error(ActualClean, PredClean)
           /\ r.rmse.k \in {"num", "sqrt"}
           /\ (PredHead = <<Num(1), Num(2), Num(3)>>
                   /\ ActualHead = <<Num(1), Num(2), Num(4)>>) => r.mape = Some(Rat(25, 3))

\* Metrics of pairs whose actual values are all zero: no MAPE, the other
\* metrics present.
C17_Witness ==
    /\ MetricsDone
    /\ call[1].error = "none"
    /\ Cardinality(FinitePairs) = 2
    /\ NonZeroActual = {}
    /\ call[1].result[1].mape = None
    /\ call[1].result[1].mae # Num(0)

\* The sign of the step from position i to i + 1: 1 rise, -1 fall, 0 flat.
SignOfStep(values, i) ==
    IF RatLess(values[i], values[i + 1]) THEN 1
    ELSE IF RatLess(values[i + 1], values[i]) THEN -1 ELSE 0

\* C18: directional accuracy is 100 times the fraction of consecutive pairs
\* of the finite-valued series on which the sign of the actual step (rise,
\* fall or no change) equals the sign of the predicted step, a flat step
\* agreeing only with a flat step; it is absent when fewer than two
\* finite-valued observations remain; actual [1,2,1,3] against predicted
\* [1,3,0,4] gives 100.
C18_DirectionalAccuracyBySign ==
    (MetricsDone /\ call[1].error = "none") =>
        LET k == Cardinality(FinitePairs)
            agree == {i \in 1..(k - 1) :
                         SignOfStep(ActualClean, i) = SignOfStep(PredClean, i)}
            r == call[1].result[1]
        IN IF k < 2
           THEN r.directional_accuracy = None
           ELSE r.directional_accuracy = Some(Rat(100 * Cardinality(agree), k - 1))

(***************************************************************************)
(* Properties of the request handlers (checked under SpecRoutes).          *)
(***************************************************************************)
\* The request recorded in c was made without what it requires.
LacksPrecondition(c) ==
    \/ c.op \in {"generate_features", "train"} /\ current_data = None
    \/ c.op = "predict" /\ model = None
    \/ c.op = "metrics" /\ (predictions = None \/ actual_values = None)

\* C19: in every sequence of upload, generate_features, train, predict and
\* metrics requests, generate_features and train succeed only when a table
\* is loaded, predict only when a model is live (a model is installed by a
\* successful train alone), metrics only when a forecast and its paired
\* actual values are held (they are stored by a successful predict with an
\* actual series alone); a request made without its precondition is rejected
\* with an error and leaves table, model and forecast unchanged.
C19_PreconditionsGuardCalls ==
    [][LET c == call'[1]
       IN /\ (c.op \in {"generate_features", "train"} /\ ~CallFailed(c)) => current_data # None
          /\ (c.op = "predict" /\ ~CallFailed(c)) => model # None
          /\ (model' # model) => (c.op = "train" /\ ~CallFailed(c))
          /\ (c.op = "metrics" /\ ~CallFailed(c)) =>
                /\ predictions # None /\ actual_values # None
                /\ predictions[1].index = actual_values[1].index
          /\ (forecastVars' # forecastVars) =>
                /\ c.op = "predict" /\ ~CallFailed(c)
                /\ c.result[1].actual # None
                /\ actual_values' = Some(Series(c.result[1].dates, c.result[1].actual[1]))
          /\ LacksPrecondition(c) =>
                /\ CallFailed(c)
                /\ UNCHANGED <<current_data, modelVars, forecastVars>>]_vars

\* A metrics request rejected because no forecast is held, a model being
\* live.
C19_Witness ==
    /\ call # None
    /\ call[1].op = "metrics"
    /\ call[1].status = 400
    /\ predictions = None
    /\ model # None

(***************************************************************************)
(* Properties of repeated generate_features requests (checked under        *)
(* SpecFeat, whose calls repeat one request).                              *)
(***************************************************************************)
NoMissing(t) == \A c \in Columns(t) : \A i \in 1..NRows(t) : ~IsNaN(t.cols[c][i])

LargestWindow ==
    CHOOSE w \in Range(call[1].windows) : \A v \in Range(call[1].windows) : v <= w

\* A generate_features request as the handler makes it (two windows, default
\* operations) for columns of the table, on a table without missing values.
CleanRequest ==
    /\ FeatDone
    /\ call[1].operations = None
    /\ NoMissing(call[1].data[1])
    /\ Range(call[1].columns) \subseteq Columns(call[1].data[1])

\* The rows of t from position first on.
RowsFromPosition(t, first) == SubSeq(t.ids, first, NRows(t))

\* C21 as stated: generate_features writes its result back as the session
\* table; a repeated call adds no column name and, for a largest window
\* W >= 2, leaves the table of the previous call without its first W-1 rows,
\* until no rows remain.
C21_EachCallDropsLeadingRows ==
    CleanRequest =>
        LET in == call[1].data[1]
            out == call[1].out
        IN /\ current_data = Some(out)
           /\ (ncalls >= 2) => Columns(out) = Columns(in)
           /\ (LargestWindow >= 2) => out.ids = RowsFromPosition(in, LargestWindow)

\* C21 as amended: generate_features writes its result back as the session
\* table; a repeated call adds no column name (the columns are the input's
\* and the names '{source}_rolling_{operation}_{window}' of the request); a
\* call whose windows are all >= 2 leaves the table of the previous call
\* without its first W-1 rows, W the largest window, until no rows remain; a
\* call with a window of 1 leaves no rows, the std of a one-row window being
\* missing on every row.
C21_RepeatedCallDropsRows ==
    CleanRequest =>
        LET in == call[1].data[1]
            out == call[1].out
        IN /\ current_data = Some(out)
           /\ (ncalls >= 2) => Columns(out) = Columns(in)
           /\ Columns(out) = Columns(in) \cup Range(ExpectedNames)
           /\ IF 1 \in Range(call[1].windows)
              THEN NRows(out) = 0
              ELSE out.ids = RowsFromPosition(in, LargestWindow)

\* A second call with the same request and windows >= 2: the table keeps its
\* columns, loses W-1 more rows and still has rows.
C21_Witness ==
    /\ CleanRequest
    /\ ncalls = 2
    /\ 1 \notin Range(call[1].windows)
    /\ Columns(call[1].out) = Columns(call[1].data[1])
    /\ NRows(call[1].data[1]) - NRows(call[1].out) = LargestWindow - 1
    /\ NRows(call[1].out) >= 1

(***************************************************************************)
(* Properties of the held forecast and of the train request (checked under *)
(* SpecRoutes).                                                            *)
(***************************************************************************)
\* The forecast values were produced by the model m.
ForecastOf(m) ==
    \A i \in 1..Len(predictions[1].values) : predictions[1].values[i].model = m

\* C22: in every reachable session state a held forecast belongs to the live
\* model: whenever has_predictions is true, the held predictions were
\* produced by the model now installed (by a predict made after the most
\* recent successful train) and the held actual values are rows of the
\* testing partition now held.
C22_HeldForecastOfLiveModel ==
    (predictions # None) =>
        /\ model # None
        /\ ForecastOf(model[1])
        /\ (actual_values # None) =>
              /\ testing_data # None
              /\ actual_values[1].index =
                    FirstN(testing_data[1].index, Len(actual_values[1].index))


\* C23: a train request whose caller supplies no features (none or an empty
\* list) while no features have been generated in the session is rejected
\* with status 400 and the message 'No features available. Please generate
\* features first.', and no model is fitted or installed.
C23_TrainWithoutFeaturesRejected ==
    [][(/\ call'[1].op = "train"
        /\ "features" \in DOMAIN call'[1]
        /\ call'[1].features = <<>>
        /\ generated_features = <<>>) =>
           /\ call'[1].status = 400
           /\ call'[1].error = "No features available. Please generate features first."
           /\ UNCHANGED modelVars]_vars


\* The live model was fitted on the training partition held with it, for the
\* target and the features that model_info records.
ModelOfHeldPartition ==
    (model # None) =>
        /\ model_info # None /\ training_data # None
        /\ LET info == model_info[1]
               training == training_data[1]
           IN /\ info.target_column \in Columns(training)
              /\ model[1].y = Series(training.index, training.cols[info.target_column])
              /\ model[1].X = (IF info.features_used # <<>>
                               THEN Some(info.features_used) ELSE None)
              /\ info.training_rows = NRows(training)
              /\ info.testing_rows = (IF testing_data = None THEN 0
                                      ELSE NRows(testing_data[1]))

=============================================================================
